---- MODULE Spec2Model ----
(***************************************************************************)
(* Connection lifecycle of the RespiraMate IoT layer.                      *)
(*                                                                         *)
(*   WiFiService  (src/src/services/iot/WiFiService.ts, lines 23-433)      *)
(*     sockets, the connect promise, the reconnect timers                  *)
(*   IoTManager   (src/src/services/iot/IoTManager.ts)                     *)
(*     the device registry, the status channel, connect / disconnect       *)
(*   useIoTConnection (src/unnamed/part_002, lines 233-517)                *)
(*     the hook's auto-reconnect timer                                     *)
(*                                                                         *)
(* WiFiService and IoTManager share no state in the source (IoTManager's   *)
(* transport methods do not call the services), so each has its own        *)
(* next-state relation and specification over the same variables.          *)
(***************************************************************************)
EXTENDS Integers, FiniteSets, Sequences, TLC

\* ------------------------------------------------------------------ bounds

\* WebSocket objects constructed in one behaviour.
MaxSockets == 4
\* Reconnect timers armed in one behaviour.
MaxTimers == 3
\* config.maxReconnectAttempts: a constructor option (default 5,
\* WiFiService.ts line 35), checked here for a small configured value.
MaxReconnectAttempts == 2

\* Device ids handed to WiFiService.
WifiIds == {"w1"}

\* ------------------------------------------------------- WiFiService state

VARIABLES
    deviceConfigs,      \* Map deviceId -> config: a config or NoConfig
    connections,        \* Map deviceId -> WebSocket: socket id or NoSocket
    reconnectAttempts,  \* Map deviceId -> number: count or Absent
    reconnectTimers,    \* Map deviceId -> timer handle: timer id or NoTimer
    sockets,            \* the WebSocket objects that still deliver events
    timers,             \* the reconnect timeouts that are armed and not fired
    nextSock,           \* id of the next WebSocket constructed
    nextTimer,          \* id of the next timeout armed
    autoAttempts,       \* history, per id: connectToDevice calls made by timer
                        \* callbacks since the caller's last call for the id or
                        \* the last open
    lossSeen,           \* history, per id: an open connection was lost unsolicited
                        \* and none has opened nor was the id disconnected since
    manuallyOff,        \* history, per id: the caller's last call for the id was
                        \* disconnectDevice
    statusLog,          \* status events delivered to the status subscribers
    settled,            \* how a connectToDevice call completed in the last step
    cleanedUp           \* history: cleanup() ran and the caller has asked for
                        \* no connect since

\* ---------------------------------------------- IoTManager and hook state

VARIABLES
    devices,            \* Map deviceId -> DeviceInfo: its status, or Unregistered
    isScanning,         \* IoTManager.isScanning
    pendingConnect,     \* per id: connectToDevice calls awaiting the transport
    pendingDisconnect,  \* per id: disconnectDevice calls awaiting the transport
    ret,                \* the call that returned in the last step, or NoRet
    autoReconnect,      \* the hook's autoReconnect option
    hookTimers          \* per id: the hook's reconnect timeouts armed, not fired

\* ------------------------------------------------------- sendCommand state

VARIABLES
    pendingSend,        \* per id: sendCommand calls awaiting the transport send
    sendLog             \* the transport sends invoked: the id and the status the
                        \* registry held for it at the call

sendVars == <<pendingSend, sendLog>>

\* ------------------------------------------------ subscriber dispatch state

VARIABLES
    dataCallbacks,      \* IoTManager.dataCallbacks: a Set, in insertion order
    statusCallbacks,    \* IoTManager.statusCallbacks: a Set, in insertion order
    lastEmit,           \* the channel of the last emission, "none" once the
                        \* subscriptions have changed since
    invoked,            \* per callback: the calls the last emission made to it
    escaped             \* the last emission threw to its caller

busVars == <<dataCallbacks, statusCallbacks, lastEmit, invoked, escaped>>

\* ------------------------------------------------------ frame reception state

VARIABLES
    rxCount,            \* frames received in this behaviour
    rxFrame,            \* the last frame received and its transport, or NoFrame
    rxOutcome,          \* what the receive handler did with it
    rxAfterMalformed,   \* per transport: a malformed frame arrived before the
                        \* last frame on the connection
    reading,            \* the serial read loop is running
    telemetryLog        \* telemetry events delivered to the data subscribers

rxVars == <<rxCount, rxFrame, rxOutcome, rxAfterMalformed, reading, telemetryLog>>

\* ------------------------------------------------------------ decoder state

VARIABLES
    codecIn,            \* the input handed to a decoder, or NoInput
    codecOut            \* what the decoder returned for it

codecVars == <<codecIn, codecOut>>

\* --------------------------------------------------- serial read loop state

VARIABLES
    stream,             \* the bytes the port has delivered so far
    buffer,             \* startReading's buffer: the characters kept back
    frames              \* the lines handed to processReceivedData, in order

readVars == <<stream, buffer, frames>>

\* ------------------------------------------------- telemetry history state

VARIABLES
    historicalData,     \* AIHealthPredictor.historicalData
    inserted,           \* addDataPoint calls made so far
    timestamps,         \* data.timestamp of the points of historicalData
    clock,              \* Date.now() at the latest addDataPoint call
    pauses              \* times the feeding interval was stopped and restarted

historyVars == <<historicalData, inserted, timestamps, clock, pauses>>

\* ------------------------------------------------- transport handle state

VARIABLES
    connectedDevices,   \* BluetoothService.connectedDevices: the ids with an entry
    characteristics,    \* the ids whose command characteristic is stored in
                        \* BluetoothService.characteristics
    gattConnected,      \* the ids whose device.gatt.connected is true
    btWrites,           \* per id: characteristic.writeValue calls not settled
    readers,            \* SerialService.readers: the ids with an entry
    writers,            \* SerialService.writers: the ids with an entry
    connectedPorts,     \* SerialService.connectedPorts: the ids with an entry
    openPorts,          \* the ids whose SerialPort is open
    serialWrites,       \* per id: writer.write calls not settled
    releasing,          \* per id: the await SerialService.disconnectDevice is at
    returned            \* the transport call that returned in the last step

btVars == <<connectedDevices, characteristics, gattConnected, btWrites>>
serialVars == <<readers, writers, connectedPorts, openPorts, serialWrites, releasing>>
handleVars == <<btVars, serialVars, returned>>

dataVars == <<sendVars, busVars, rxVars, codecVars, readVars, historyVars, handleVars>>

\* The parts of dataVars other than one.
dataExceptSend == <<busVars, rxVars, codecVars, readVars, historyVars, handleVars>>
dataExceptBus == <<sendVars, rxVars, codecVars, readVars, historyVars, handleVars>>
dataExceptRx == <<sendVars, busVars, codecVars, readVars, historyVars, handleVars>>
dataExceptCodec == <<sendVars, busVars, rxVars, readVars, historyVars, handleVars>>
dataExceptRead == <<sendVars, busVars, rxVars, codecVars, historyVars, handleVars>>
dataExceptHistory == <<sendVars, busVars, rxVars, codecVars, readVars, handleVars>>
dataExceptHandles == <<sendVars, busVars, rxVars, codecVars, readVars, historyVars>>

wifiVars == <<deviceConfigs, connections, reconnectAttempts, reconnectTimers,
              sockets, timers, nextSock, nextTimer, autoAttempts, lossSeen,
              manuallyOff, settled, cleanedUp>>

managerVars == <<devices, isScanning, pendingConnect, pendingDisconnect, ret,
                 autoReconnect, hookTimers>>

vars == <<deviceConfigs, connections, reconnectAttempts, reconnectTimers,
          sockets, timers, nextSock, nextTimer, autoAttempts, lossSeen,
          manuallyOff, statusLog, settled, cleanedUp,
          devices, isScanning, pendingConnect, pendingDisconnect, ret,
          autoReconnect, hookTimers,
          pendingSend, sendLog,
          dataCallbacks, statusCallbacks, lastEmit, invoked, escaped,
          rxCount, rxFrame, rxOutcome, rxAfterMalformed, reading, telemetryLog,
          codecIn, codecOut,
          stream, buffer, frames,
          historicalData, inserted, timestamps, clock, pauses,
          connectedDevices, characteristics, gattConnected, btWrites,
          readers, writers, connectedPorts, openPorts, serialWrites, releasing,
          returned>>

NoSocket == 0
NoTimer == 0
Absent == -1
NoConfig == "none"

\* The configs a caller passes: one whose URL the WebSocket constructor
\* accepts, one whose URL it rejects.
Configs == {"ok", "bad"}

\* A WebSocket as WiFiService sees it.
\*   st   : readyState, "connecting" | "open" | "closing"  (closed ones are dropped)
\*   est  : TRUE once setupWebSocketHandlers replaced the connect-time handlers
\*   auto : TRUE when a reconnect timer callback constructed it
OpenSocketsOf(d) == {s \in sockets : s.dev = d /\ s.st = "open"}
TimersOf(d) == {t \in timers : t.dev = d}

\* clearTimeout(handle): a fired or unknown handle is a no-op.
ClearTimeout(ts, handle) == {t \in ts : t.id # handle}

\* this.reconnectAttempts.get(deviceId) || 0
AttemptsOr0(ra, d) == IF ra[d] = Absent THEN 0 ELSE ra[d]

\* scheduleReconnection's guard: it arms a timer unless the cap is reached.
ArmsTimer(attempts) == ~(attempts >= MaxReconnectAttempts)

\* No connectToDevice call completed in the step.
NoSettle == [by |-> "none", outcome |-> "none"]

\* A connectToDevice call completed: its promise resolved with a boolean
\* ("true", "false") or rejected ("rejected"). The caller is the application
\* ("app") or the timer callback of scheduleReconnection ("timer").
Settle(by, outcome) == [by |-> by, outcome |-> outcome]

\* What reject(...) in the promise executor makes of the returned promise:
\* the try block returned the promise without awaiting it, so the catch that
\* returns false does not see the rejection.
Reject == "rejected"

\* The caller of the connectToDevice call that constructed the socket.
CallerOf(s) == IF s.auto THEN "timer" ELSE "app"

InitWifi ==
    /\ settled = NoSettle
    /\ cleanedUp = FALSE
    /\ deviceConfigs = [d \in WifiIds |-> NoConfig]
    /\ connections = [d \in WifiIds |-> NoSocket]
    /\ reconnectAttempts = [d \in WifiIds |-> Absent]
    /\ reconnectTimers = [d \in WifiIds |-> NoTimer]
    /\ sockets = {}
    /\ timers = {}
    /\ nextSock = 1
    /\ nextTimer = 1
    /\ autoAttempts = [d \in WifiIds |-> 0]
    /\ lossSeen = [d \in WifiIds |-> FALSE]
    /\ manuallyOff = [d \in WifiIds |-> FALSE]

\* scheduleReconnection(deviceId, config), given the attempts map it reads and
\* the timers pending when it runs. The handle of an earlier timer is
\* overwritten in the map, not cleared.
ScheduleReconnection(d, cfg, ra, ts) ==
    LET attempts == AttemptsOr0(ra, d) IN
    IF ArmsTimer(attempts)
    THEN /\ nextTimer <= MaxTimers
         /\ timers' = ts \cup {[id |-> nextTimer, dev |-> d, cfg |-> cfg,
                                attempts |-> attempts]}
         /\ reconnectTimers' = [reconnectTimers EXCEPT ![d] = nextTimer]
         /\ nextTimer' = nextTimer + 1
    ELSE /\ timers' = ts
         /\ UNCHANGED <<reconnectTimers, nextTimer>>

\* handleDisconnection(deviceId): drop the map entry, reconnect if a config exists.
HandleDisconnection(d) ==
    /\ connections' = [connections EXCEPT ![d] = NoSocket]
    /\ IF deviceConfigs[d] # NoConfig
       THEN ScheduleReconnection(d, deviceConfigs[d], reconnectAttempts, timers)
       ELSE UNCHANGED <<timers, reconnectTimers, nextTimer>>

\* new WebSocket(buildWebSocketURL(config)) throws for a config whose URL the
\* constructor rejects, and for no other.
ConstructorThrows(cfg) == cfg = "bad"

\* The WebSocket connectToDevice constructs.
NewSocket(d, auto) ==
    [id |-> nextSock, dev |-> d, st |-> "connecting", est |-> FALSE, auto |-> auto]

\* connectToDevice(deviceId, config) called by the application: the config is
\* stored, the WebSocket is constructed and the promise is returned pending.
ConnectToDevice(d, cfg) ==
    /\ ~ConstructorThrows(cfg)
    /\ nextSock <= MaxSockets
    /\ deviceConfigs' = [deviceConfigs EXCEPT ![d] = cfg]
    /\ sockets' = sockets \cup {NewSocket(d, FALSE)}
    /\ nextSock' = nextSock + 1
    /\ autoAttempts' = [autoAttempts EXCEPT ![d] = 0]
    /\ manuallyOff' = [manuallyOff EXCEPT ![d] = FALSE]
    /\ UNCHANGED lossSeen
    /\ UNCHANGED <<connections, reconnectAttempts, reconnectTimers, timers,
                   nextTimer, statusLog>>
    /\ settled' = NoSettle
    /\ cleanedUp' = FALSE
    /\ UNCHANGED managerVars
    /\ UNCHANGED dataVars

\* connectToDevice when the constructor throws: the catch returns false; the
\* config was stored before the constructor ran.
ConnectToDeviceThrows(d, cfg) ==
    /\ ConstructorThrows(cfg)
    /\ deviceConfigs' = [deviceConfigs EXCEPT ![d] = cfg]
    /\ autoAttempts' = [autoAttempts EXCEPT ![d] = 0]
    /\ manuallyOff' = [manuallyOff EXCEPT ![d] = FALSE]
    /\ UNCHANGED lossSeen
    /\ UNCHANGED <<connections, reconnectAttempts, reconnectTimers, sockets,
                   timers, nextSock, nextTimer, statusLog>>
    /\ settled' = Settle("app", "false")
    /\ cleanedUp' = FALSE
    /\ UNCHANGED managerVars
    /\ UNCHANGED dataVars

\* resetReconnectAttempts(deviceId)
ResetReconnectAttempts(d) ==
    /\ reconnectAttempts' = [reconnectAttempts EXCEPT ![d] = Absent]
    /\ timers' = ClearTimeout(timers, reconnectTimers[d])
    /\ reconnectTimers' = [reconnectTimers EXCEPT ![d] = NoTimer]

\* ws.onopen of connectToDevice: register the socket, install the message
\* handlers, reset the reconnect state, resolve(true).
OnOpen(s) ==
    /\ s \in sockets /\ s.st = "connecting"
    /\ connections' = [connections EXCEPT ![s.dev] = s.id]
    /\ sockets' = (sockets \ {s}) \cup {[s EXCEPT !.st = "open", !.est = TRUE]}
    /\ ResetReconnectAttempts(s.dev)
    /\ autoAttempts' = [autoAttempts EXCEPT ![s.dev] = 0]
    /\ lossSeen' = [lossSeen EXCEPT ![s.dev] = FALSE]
    /\ UNCHANGED manuallyOff
    /\ UNCHANGED <<deviceConfigs, nextSock, nextTimer, statusLog>>
    /\ settled' = Settle(CallerOf(s), "true")
    /\ UNCHANGED cleanedUp
    /\ UNCHANGED managerVars
    /\ UNCHANGED dataVars

\* The connect fails before open: the browser fires error (ws.onerror rejects
\* the promise) and then close (ws.onclose runs handleDisconnection).
OnConnectError(s) ==
    /\ s \in sockets /\ s.st = "connecting"
    /\ sockets' = sockets \ {s}
    /\ HandleDisconnection(s.dev)
    /\ UNCHANGED <<deviceConfigs, reconnectAttempts, nextSock, autoAttempts, lossSeen,
                   manuallyOff, statusLog>>
    /\ settled' = Settle(CallerOf(s), Reject)
    /\ UNCHANGED cleanedUp
    /\ UNCHANGED managerVars
    /\ UNCHANGED dataVars

\* The peer closes before open, with no error event: ws.onclose alone runs
\* and the promise is left pending (the same state change as OnConnectError;
\* the two differ in what becomes of the promise).
OnCloseBeforeOpen(s) ==
    /\ s \in sockets /\ s.st = "connecting"
    /\ sockets' = sockets \ {s}
    /\ HandleDisconnection(s.dev)
    /\ UNCHANGED <<deviceConfigs, reconnectAttempts, nextSock, autoAttempts, lossSeen,
                   manuallyOff, statusLog>>
    /\ settled' = NoSettle
    /\ UNCHANGED cleanedUp
    /\ UNCHANGED managerVars
    /\ UNCHANGED dataVars

\* The connection timeout of connectToDevice fires: ws.close(), reject.
OnConnectTimeout(s) ==
    /\ s \in sockets /\ s.st = "connecting"
    /\ sockets' = (sockets \ {s}) \cup {[s EXCEPT !.st = "closing"]}
    /\ UNCHANGED <<deviceConfigs, connections, reconnectAttempts, reconnectTimers,
                   timers, nextSock, nextTimer, autoAttempts, lossSeen,
                   manuallyOff, statusLog>>
    /\ settled' = Settle(CallerOf(s), Reject)
    /\ UNCHANGED cleanedUp
    /\ UNCHANGED managerVars
    /\ UNCHANGED dataVars

\* The close event of a socket that ws.close() was called on before it opened:
\* the connect-time ws.onclose runs handleDisconnection.
OnCloseAfterTimeout(s) ==
    /\ s \in sockets /\ s.st = "closing" /\ ~s.est
    /\ sockets' = sockets \ {s}
    /\ HandleDisconnection(s.dev)
    /\ UNCHANGED <<deviceConfigs, reconnectAttempts, nextSock, autoAttempts, lossSeen,
                   manuallyOff, statusLog>>
    /\ settled' = NoSettle
    /\ UNCHANGED cleanedUp
    /\ UNCHANGED managerVars
    /\ UNCHANGED dataVars

\* ws.onclose installed by setupWebSocketHandlers, on a socket that opened:
\* the transport is lost (st = "open") or a close() has completed.
OnClose(s) ==
    /\ s \in sockets /\ s.est
    /\ sockets' = sockets \ {s}
    /\ HandleDisconnection(s.dev)
    /\ lossSeen' = [lossSeen EXCEPT ![s.dev] = @ \/ s.st = "open"]
    /\ UNCHANGED <<deviceConfigs, reconnectAttempts, nextSock, autoAttempts,
                   manuallyOff, statusLog>>
    /\ settled' = NoSettle
    /\ UNCHANGED cleanedUp
    /\ UNCHANGED managerVars
    /\ UNCHANGED dataVars

\* ws.close() on the socket with this id.
CloseSocket(ss, id) ==
    {IF s.id = id THEN [s EXCEPT !.st = "closing"] ELSE s : s \in ss}

\* disconnectDevice(deviceId)
DisconnectDevice(d) ==
    /\ sockets' = CloseSocket(sockets, connections[d])
    /\ connections' = [connections EXCEPT ![d] = NoSocket]
    /\ timers' = ClearTimeout(timers, reconnectTimers[d])
    /\ reconnectTimers' = [reconnectTimers EXCEPT ![d] = NoTimer]
    /\ deviceConfigs' = [deviceConfigs EXCEPT ![d] = NoConfig]
    /\ reconnectAttempts' = [reconnectAttempts EXCEPT ![d] = Absent]
    /\ autoAttempts' = [autoAttempts EXCEPT ![d] = 0]
    /\ lossSeen' = [lossSeen EXCEPT ![d] = FALSE]
    /\ manuallyOff' = [manuallyOff EXCEPT ![d] = TRUE]
    /\ UNCHANGED <<nextSock, nextTimer, statusLog>>
    /\ settled' = NoSettle
    /\ UNCHANGED cleanedUp
    /\ UNCHANGED managerVars
    /\ UNCHANGED dataVars

\* The timer callback of scheduleReconnection, when connectToDevice gets as far
\* as returning its promise: whatever the promise does later, the callback
\* changes nothing more (true skips the branch, a rejection leaves the callback).
FireTimer(t) ==
    /\ t \in timers
    /\ ~ConstructorThrows(t.cfg)
    /\ nextSock <= MaxSockets
    /\ timers' = timers \ {t}
    /\ deviceConfigs' = [deviceConfigs EXCEPT ![t.dev] = t.cfg]
    /\ sockets' = sockets \cup {NewSocket(t.dev, TRUE)}
    /\ nextSock' = nextSock + 1
    /\ autoAttempts' = [autoAttempts EXCEPT ![t.dev] = @ + 1]
    /\ UNCHANGED <<connections, reconnectAttempts, reconnectTimers, nextTimer,
                   lossSeen, manuallyOff, statusLog>>
    /\ settled' = NoSettle
    /\ UNCHANGED cleanedUp
    /\ UNCHANGED managerVars
    /\ UNCHANGED dataVars

\* The timer callback when connectToDevice returns false (the constructor
\* threw): the attempt is counted and scheduleReconnection runs again.
FireTimerThrows(t) ==
    /\ t \in timers
    /\ ConstructorThrows(t.cfg)
    /\ deviceConfigs' = [deviceConfigs EXCEPT ![t.dev] = t.cfg]
    /\ reconnectAttempts' = [reconnectAttempts EXCEPT ![t.dev] = t.attempts + 1]
    /\ ScheduleReconnection(t.dev, t.cfg, reconnectAttempts', timers \ {t})
    /\ autoAttempts' = [autoAttempts EXCEPT ![t.dev] = @ + 1]
    /\ UNCHANGED <<connections, sockets, nextSock, lossSeen, manuallyOff, statusLog>>
    /\ settled' = Settle("timer", "false")
    /\ UNCHANGED cleanedUp
    /\ UNCHANGED managerVars
    /\ UNCHANGED dataVars

\* cleanup(): close the registered open sockets, clear the timers the map
\* holds, clear connections, reconnectTimers and reconnectAttempts.
Cleanup ==
    /\ sockets' = {IF connections[s.dev] = s.id /\ s.st = "open"
                   THEN [s EXCEPT !.st = "closing"] ELSE s : s \in sockets}
    /\ timers' = {t \in timers : \A d \in WifiIds : reconnectTimers[d] # t.id}
    /\ connections' = [d \in WifiIds |-> NoSocket]
    /\ reconnectTimers' = [d \in WifiIds |-> NoTimer]
    /\ reconnectAttempts' = [d \in WifiIds |-> Absent]
    /\ autoAttempts' = [d \in WifiIds |-> 0]
    /\ lossSeen' = [d \in WifiIds |-> FALSE]
    /\ UNCHANGED <<deviceConfigs, nextSock, nextTimer, manuallyOff, statusLog>>
    /\ settled' = NoSettle
    /\ cleanedUp' = TRUE
    /\ UNCHANGED managerVars
    /\ UNCHANGED dataVars

\* ------------------------------------------------- IoTManager and the hook

\* Status events in statusLog in one behaviour.
MaxEvents == 3
\* Manager calls awaiting their transport at one time.
MaxInFlight == 2
\* Hook reconnect timeouts pending per device at one time.
MaxHookTimers == 2

\* Device ids the callers use, one per connection type.
ManagerIds == {"bt-1", "wifi-1", "serial-1"}

\* DeviceInfo.connectionType
ConnectionType(d) ==
    CASE d = "bt-1" -> "bluetooth"
      [] d = "wifi-1" -> "wifi"
      [] d = "serial-1" -> "serial"

\* The connection types the switch of connectToDevice / disconnectDevice
\* dispatches; any other type throws 'Unsupported connection type'.
SupportedTypes == {"bluetooth", "wifi", "websocket", "serial"}

Unregistered == "unregistered"
NoRet == [op |-> "none"]

\* What the transport method the switch dispatches to (connectBluetooth,
\* disconnectSerial, ...) can do with its Promise<boolean>: resolve true,
\* resolve false, reject. The bodies in the source are placeholders that
\* resolve false; an unsupported type throws before any transport is called.
TransportOutcomes(d) ==
    IF ConnectionType(d) \in SupportedTypes
    THEN {"true", "false", "throw"}
    ELSE {"throw"}

RECURSIVE SumOver(_, _)
SumOver(f, S) ==
    IF S = {} THEN 0
    ELSE LET x == CHOOSE y \in S : TRUE IN f[x] + SumOver(f, S \ {x})

InFlight == SumOver(pendingConnect, ManagerIds) + SumOver(pendingDisconnect, ManagerIds)

\* emitStatusUpdate(device): every status subscriber is called with the device.
EmitStatusUpdate(log, d, status) == Append(log, [id |-> d, status |-> status])

\* The hook's handleStatusChanged, one of the status subscribers: a
\* 'disconnected' event arms a 5 s timeout that calls connectToDevice.
HandleStatusChanged(ht, d, status) ==
    IF autoReconnect /\ status = "disconnected"
    THEN [ht EXCEPT ![d] = @ + 1]
    ELSE ht

\* A status change of IoTManager: device.status = status; emitStatusUpdate(device).
SetStatusAndEmit(d, status, ht) ==
    /\ Len(statusLog) < MaxEvents
    /\ devices' = [devices EXCEPT ![d] = status]
    /\ statusLog' = EmitStatusUpdate(statusLog, d, status)
    /\ hookTimers' = HandleStatusChanged(ht, d, status)
    /\ \A e \in ManagerIds : hookTimers'[e] <= MaxHookTimers

\* A lookup that finds every id: the not-found check left out.
RegisteredMutant(d) == TRUE

\* The registry lookup of connectToDevice, disconnectDevice and sendCommand.
Registered(d) == devices[d] # Unregistered

\* The state after construction, except for the registry: the source only
\* reads this.devices (no method inserts into it, see C10), so the operations
\* on registered devices are checked for registries that already hold some of
\* the ids, each 'disconnected' as the discovery code creates them
\* (WiFiService.ts lines 200-206).
InitManager ==
    /\ devices \in [ManagerIds -> {Unregistered, "disconnected"}]
    /\ \E d \in ManagerIds : devices[d] = Unregistered
    /\ isScanning = FALSE
    /\ pendingConnect = [d \in ManagerIds |-> 0]
    /\ pendingDisconnect = [d \in ManagerIds |-> 0]
    /\ ret = NoRet
    /\ autoReconnect \in BOOLEAN
    /\ hookTimers = [d \in ManagerIds |-> 0]
    /\ statusLog = <<>>

\* IoTManager.connectToDevice(deviceId) up to its await: an unknown id returns
\* false; a known one becomes 'connecting', the event is emitted and the
\* transport connect is awaited.
ConnectCall(d, ht) ==
    IF ~Registered(d)
    THEN /\ ret' = [op |-> "connect", dev |-> d, value |-> FALSE]
         /\ hookTimers' = ht
         /\ UNCHANGED <<devices, statusLog, pendingConnect>>
    ELSE /\ InFlight < MaxInFlight
         /\ SetStatusAndEmit(d, "connecting", ht)
         /\ pendingConnect' = [pendingConnect EXCEPT ![d] = @ + 1]
         /\ ret' = NoRet

\* connectToDevice called by the application (or by the hook's connectToDevice
\* action on a user request).
ManagerConnectToDevice(d) ==
    /\ ConnectCall(d, hookTimers)
    /\ UNCHANGED <<isScanning, pendingDisconnect, autoReconnect>>
    /\ UNCHANGED wifiVars
    /\ UNCHANGED dataVars

\* The awaited transport connect settles: its boolean is returned as it is; a
\* rejection is caught, the status is set to 'error' and emitted, false returned.
ConnectSettles(d, outcome) ==
    /\ pendingConnect[d] > 0
    /\ pendingConnect' = [pendingConnect EXCEPT ![d] = @ - 1]
    /\ IF outcome = "throw"
       THEN /\ SetStatusAndEmit(d, "error", hookTimers)
            /\ ret' = [op |-> "connect", dev |-> d, value |-> FALSE]
       ELSE /\ ret' = [op |-> "connect", dev |-> d, value |-> (outcome = "true")]
            /\ UNCHANGED <<devices, statusLog, hookTimers>>
    /\ UNCHANGED <<isScanning, pendingDisconnect, autoReconnect>>
    /\ UNCHANGED wifiVars
    /\ UNCHANGED dataVars

\* IoTManager.disconnectDevice(deviceId) up to its await.
ManagerDisconnectDevice(d) ==
    /\ IF ~Registered(d)
       THEN /\ ret' = [op |-> "disconnect", dev |-> d, value |-> FALSE]
            /\ UNCHANGED pendingDisconnect
       ELSE /\ InFlight < MaxInFlight
            /\ pendingDisconnect' = [pendingDisconnect EXCEPT ![d] = @ + 1]
            /\ ret' = NoRet
    /\ UNCHANGED <<devices, statusLog, hookTimers, isScanning, pendingConnect,
                   autoReconnect>>
    /\ UNCHANGED wifiVars
    /\ UNCHANGED dataVars

\* The awaited transport disconnect settles: `return await` hands its boolean
\* to the caller; only a rejection falls through to the status update below
\* the switch, and then true is returned.
DisconnectSettles(d, outcome) ==
    /\ pendingDisconnect[d] > 0
    /\ pendingDisconnect' = [pendingDisconnect EXCEPT ![d] = @ - 1]
    /\ IF outcome = "throw"
       THEN /\ SetStatusAndEmit(d, "disconnected", hookTimers)
            /\ ret' = [op |-> "disconnect", dev |-> d, value |-> TRUE]
       ELSE /\ ret' = [op |-> "disconnect", dev |-> d, value |-> (outcome = "true")]
            /\ UNCHANGED <<devices, statusLog, hookTimers>>
    /\ UNCHANGED <<isScanning, pendingConnect, autoReconnect>>
    /\ UNCHANGED wifiVars
    /\ UNCHANGED dataVars

\* The hook's reconnect timeout fires: connectToDevice(device.id), which calls
\* iotManager.connectToDevice.
HookTimerFires(d) ==
    /\ hookTimers[d] > 0
    /\ ConnectCall(d, [hookTimers EXCEPT ![d] = @ - 1])
    /\ UNCHANGED <<isScanning, pendingDisconnect, autoReconnect>>
    /\ UNCHANGED wifiVars
    /\ UNCHANGED dataVars

\* scanForDevices() while a scan is running returns the registry; otherwise it
\* sets isScanning and awaits the scanners.
ScanForDevices ==
    /\ IF isScanning
       THEN /\ ret' = [op |-> "scan", value |-> {d \in ManagerIds : Registered(d)}]
            /\ UNCHANGED isScanning
       ELSE /\ isScanning' = TRUE
            /\ ret' = NoRet
    /\ UNCHANGED <<devices, statusLog, hookTimers, pendingConnect, pendingDisconnect,
                   autoReconnect>>
    /\ UNCHANGED wifiVars
    /\ UNCHANGED dataVars

\* The scanners have answered with the devices in `found`: foundDevices is
\* returned and isScanning cleared; this.devices is not written.
ScanSettles(found) ==
    /\ isScanning
    /\ isScanning' = FALSE
    /\ ret' = [op |-> "scan", value |-> found]
    /\ UNCHANGED <<devices, statusLog, hookTimers, pendingConnect, pendingDisconnect,
                   autoReconnect>>
    /\ UNCHANGED wifiVars
    /\ UNCHANGED dataVars

ManagerIdle ==
    /\ devices = [d \in ManagerIds |-> Unregistered]
    /\ isScanning = FALSE
    /\ pendingConnect = [d \in ManagerIds |-> 0]
    /\ pendingDisconnect = [d \in ManagerIds |-> 0]
    /\ ret = NoRet
    /\ autoReconnect = TRUE
    /\ hookTimers = [d \in ManagerIds |-> 0]
    /\ statusLog = <<>>

\* ------------------------------------------------- IoTManager.sendCommand

\* Transport sends invoked in one behaviour.
MaxSends == 2

SendIdle ==
    /\ pendingSend = [d \in ManagerIds |-> 0]
    /\ sendLog = <<>>

\* The guard with the status test left out.
CanSendMutant(d) == Registered(d)

\* sendCommand's guard, negated: the device is registered and 'connected'.
CanSend(d) == Registered(d) /\ devices[d] = "connected"

\* IoTManager.sendCommand(deviceId, command, data) up to its await: false at
\* once unless the guard passes, otherwise the transport send of the device's
\* connection type is invoked and awaited.
ManagerSendCommand(d) ==
    /\ IF ~CanSend(d)
       THEN /\ ret' = [op |-> "send", dev |-> d, value |-> FALSE]
            /\ UNCHANGED <<pendingSend, sendLog>>
       ELSE /\ Len(sendLog) < MaxSends
            /\ sendLog' = Append(sendLog, [dev |-> d, status |-> devices[d]])
            /\ pendingSend' = [pendingSend EXCEPT ![d] = @ + 1]
            /\ ret' = NoRet
    /\ UNCHANGED <<devices, statusLog, hookTimers, isScanning, pendingConnect,
                   pendingDisconnect, autoReconnect>>
    /\ UNCHANGED wifiVars
    /\ UNCHANGED dataExceptSend

\* The awaited transport send settles: its boolean is returned; a rejection is
\* caught and false returned.
SendSettles(d, outcome) ==
    /\ pendingSend[d] > 0
    /\ pendingSend' = [pendingSend EXCEPT ![d] = @ - 1]
    /\ ret' = [op |-> "send", dev |-> d, value |-> (outcome = "true")]
    /\ UNCHANGED <<devices, statusLog, hookTimers, isScanning, pendingConnect,
                   pendingDisconnect, autoReconnect, sendLog>>
    /\ UNCHANGED wifiVars
    /\ UNCHANGED dataExceptSend

\* The registry for sendCommand. IoTManager never assigns 'connected' (see
\* C7), so the guard's passing branch is exercised from a registry that
\* already holds a 'connected' device, next to a 'disconnected' one and an
\* id that is not registered.
InitSend ==
    /\ devices = [d \in ManagerIds |->
                    CASE d = "bt-1" -> "connected"
                      [] d = "wifi-1" -> "disconnected"
                      [] OTHER -> Unregistered]
    /\ isScanning = FALSE
    /\ pendingConnect = [d \in ManagerIds |-> 0]
    /\ pendingDisconnect = [d \in ManagerIds |-> 0]
    /\ ret = NoRet
    /\ autoReconnect = FALSE
    /\ hookTimers = [d \in ManagerIds |-> 0]
    /\ statusLog = <<>>

\* ------------------------------------- IoTManager: subscribers and dispatch

\* The callbacks the consumers register; the last two throw when called.
Callbacks == {"cb1", "cb2", "cbThrows1", "cbThrows2"}
Throws(cb) == cb \in {"cbThrows1", "cbThrows2"}

NoCalls == [cb \in Callbacks |-> 0]

BusIdle ==
    /\ dataCallbacks = <<>>
    /\ statusCallbacks = <<>>
    /\ lastEmit = "none"
    /\ invoked = NoCalls
    /\ escaped = FALSE

\* Set.add: a value already in the set keeps its place.
SetAdd(set, cb) ==
    IF \E i \in 1..Len(set) : set[i] = cb THEN set ELSE Append(set, cb)

\* Set.delete
SetDelete(set, cb) == SelectSeq(set, LAMBDA x : x # cb)

\* The loop body with the try/catch left out: a throwing callback raises.
TryCallbackMutant(cb) == IF Throws(cb) THEN "raised" ELSE "returned"

\* The loop body of emitData / emitStatusUpdate:
\* try { callback(x) } catch (error) { console.error(...) }
TryCallback(cb) == IF Throws(cb) THEN "caught" ELSE "returned"

\* set.forEach(body) from element i on: the calls made to each callback and
\* whether an exception left the loop.
RECURSIVE ForEachCallback(_, _, _)
ForEachCallback(set, i, calls) ==
    IF i > Len(set)
    THEN [calls |-> calls, escaped |-> FALSE]
    ELSE LET called == [calls EXCEPT ![set[i]] = @ + 1]
         IN  IF TryCallback(set[i]) = "raised"
             THEN [calls |-> called, escaped |-> TRUE]
             ELSE ForEachCallback(set, i + 1, called)

\* onDataReceived(callback)
OnDataReceived(cb) ==
    /\ dataCallbacks' = SetAdd(dataCallbacks, cb)
    /\ lastEmit' = "none" /\ invoked' = NoCalls /\ escaped' = FALSE
    /\ UNCHANGED statusCallbacks
    /\ UNCHANGED <<wifiVars, statusLog, managerVars>>
    /\ UNCHANGED dataExceptBus

\* The function onDataReceived returned: dataCallbacks.delete(callback)
UnsubscribeData(cb) ==
    /\ dataCallbacks' = SetDelete(dataCallbacks, cb)
    /\ lastEmit' = "none" /\ invoked' = NoCalls /\ escaped' = FALSE
    /\ UNCHANGED statusCallbacks
    /\ UNCHANGED <<wifiVars, statusLog, managerVars>>
    /\ UNCHANGED dataExceptBus

\* onStatusChanged(callback)
OnStatusChanged(cb) ==
    /\ statusCallbacks' = SetAdd(statusCallbacks, cb)
    /\ lastEmit' = "none" /\ invoked' = NoCalls /\ escaped' = FALSE
    /\ UNCHANGED dataCallbacks
    /\ UNCHANGED <<wifiVars, statusLog, managerVars>>
    /\ UNCHANGED dataExceptBus

\* The function onStatusChanged returned: statusCallbacks.delete(callback)
UnsubscribeStatus(cb) ==
    /\ statusCallbacks' = SetDelete(statusCallbacks, cb)
    /\ lastEmit' = "none" /\ invoked' = NoCalls /\ escaped' = FALSE
    /\ UNCHANGED dataCallbacks
    /\ UNCHANGED <<wifiVars, statusLog, managerVars>>
    /\ UNCHANGED dataExceptBus

\* emitData(data)
EmitData ==
    /\ LET r == ForEachCallback(dataCallbacks, 1, NoCalls)
       IN  invoked' = r.calls /\ escaped' = r.escaped
    /\ lastEmit' = "data"
    /\ UNCHANGED <<dataCallbacks, statusCallbacks>>
    /\ UNCHANGED <<wifiVars, statusLog, managerVars>>
    /\ UNCHANGED dataExceptBus

\* emitStatusUpdate(device)
EmitStatus ==
    /\ LET r == ForEachCallback(statusCallbacks, 1, NoCalls)
       IN  invoked' = r.calls /\ escaped' = r.escaped
    /\ lastEmit' = "status"
    /\ UNCHANGED <<dataCallbacks, statusCallbacks>>
    /\ UNCHANGED <<wifiVars, statusLog, managerVars>>
    /\ UNCHANGED dataExceptBus

\* --------------------------------------------------- decoders: JS values

\* JavaScript values the decoders handle: undefined, numbers, strings (as
\* character sequences).
Undefined == [t |-> "undefined"]
Num(n) == [t |-> "number", n |-> n]
Str(s) == [t |-> "string", s |-> s]

\* ToBoolean(v): undefined, 0 and '' are falsy.
Truthy(v) ==
    CASE v.t = "undefined" -> FALSE
      [] v.t = "number" -> v.n # 0
      [] v.t = "string" -> v.s # <<>>

\* a || b
Or(a, b) == IF Truthy(a) THEN a ELSE b

\* The optional fields of DeviceData.
DataFields == {"heartRate", "airQuality", "inhalerUsage", "inhalerBattery",
               "wearableBattery"}

\* const data: Partial<DeviceData> = {}
EmptyData == [f \in DataFields |-> Undefined]

\* Date.now() at the time of the call.
Now == 1000

\* The fields of a record that hold a value.
PopulatedFields(rec) == {f \in DOMAIN rec : rec[f] # Undefined}

\* ---------------------------------- BluetoothService.parseDeviceData (TLV)

\* A thrown exception as a result.
Thrown == [thrown |-> TRUE]
Returned(v) == [thrown |-> FALSE, value |-> v]

\* DataView.getUint8(o) is in bounds (o counted from 0).
InBounds8(value, o) == o + 1 <= Len(value)
\* DataView.getUint16(o, true) is in bounds.
InBounds16(value, o) == o + 2 <= Len(value)
GetUint8(value, o) == value[o + 1]
\* little endian
GetUint16(value, o) == value[o + 1] + 256 * value[o + 2]

\* An offset that ignores the length byte and assumes a two-byte payload.
NextOffsetMutant(offset, length) == offset + 2

\* offset += length
NextOffset(offset, length) == offset + length

\* The while loop of parseDeviceData from `offset` on; an out-of-bounds read
\* of the DataView throws RangeError.
RECURSIVE ParseFrom(_, _, _)
ParseFrom(value, offset, data) ==
    IF ~(offset < Len(value)) THEN Returned(data)
    ELSE IF ~InBounds8(value, offset + 1) THEN Thrown
    ELSE LET type == GetUint8(value, offset)
             length == GetUint8(value, offset + 1)
             o == offset + 2
         IN  CASE type \in {1, 2, 3} ->
                    IF ~InBounds16(value, o) THEN Thrown
                    ELSE LET field == CASE type = 1 -> "heartRate"
                                        [] type = 2 -> "airQuality"
                                        [] type = 3 -> "inhalerUsage"
                         IN  ParseFrom(value, NextOffset(o, length),
                                       [data EXCEPT ![field] = Num(GetUint16(value, o))])
               [] type = 4 ->
                    IF ~InBounds8(value, o) THEN Thrown
                    ELSE ParseFrom(value, NextOffset(o, length),
                                   [data EXCEPT !["inhalerBattery"] = Num(GetUint8(value, o))])
               [] OTHER -> ParseFrom(value, NextOffset(o, length), data)

\* parseDeviceData(value)
ParseDeviceData(value) == ParseFrom(value, 0, EmptyData)

\* handleDataReceived(deviceId, event): { ...data, timestamp: Date.now() },
\* logged; an exception of parseDeviceData is caught and logged.
HandleDataReceived(value) ==
    LET r == ParseDeviceData(value)
    IN  IF r.thrown
        THEN [raised |-> FALSE, decoded |-> FALSE]
        ELSE [raised |-> FALSE, decoded |-> TRUE, record |-> r.value,
              timestamp |-> Now]

\* ------------------------------------------------ decoders: text and JSON

\* The characters of the property names the decoders read.
Chars(name) ==
    CASE name = "hr" -> <<"h", "r">>
      [] name = "aq" -> <<"a", "q">>
      [] name = "usage" -> <<"u", "s", "a", "g", "e">>
      [] name = "battery" -> <<"b", "a", "t", "t", "e", "r", "y">>
      [] name = "heartRate" -> <<"h", "e", "a", "r", "t", "R", "a", "t", "e">>
      [] name = "airQuality" -> <<"a", "i", "r", "Q", "u", "a", "l", "i", "t", "y">>
      [] name = "inhalerUsage" ->
            <<"i", "n", "h", "a", "l", "e", "r", "U", "s", "a", "g", "e">>
      [] name = "inhalerBattery" ->
            <<"i", "n", "h", "a", "l", "e", "r", "B", "a", "t", "t", "e", "r", "y">>
      [] name = "wearableBattery" ->
            <<"w", "e", "a", "r", "a", "b", "l", "e", "B", "a", "t", "t", "e", "r", "y">>
      [] name = "type" -> <<"t", "y", "p", "e">>
      [] name = "data" -> <<"d", "a", "t", "a">>
      [] name = "timestamp" -> <<"t", "i", "m", "e", "s", "t", "a", "m", "p">>
      [] name = "error" -> <<"e", "r", "r", "o", "r">>

\* More JavaScript values: null, a string given by its characters, an object
\* given by the function from its keys (character sequences) to its values.
Null == [t |-> "null"]
Text(chars) == [t |-> "string", chars |-> chars]
Obj(f) == [t |-> "object", f |-> f]

\* v[name]: reading a property of undefined or null throws TypeError.
Prop(v, name) ==
    CASE v.t \in {"undefined", "null"} -> Thrown
      [] v.t = "object" ->
            Returned(IF Chars(name) \in DOMAIN v.f THEN v.f[Chars(name)] ELSE Undefined)
      [] OTHER -> Returned(Undefined)

\* A JSON text, by its structure: null, a number, a string, or an object as
\* the sequence of its "key": value members in the order written.
JNull == [j |-> "null"]
JNum(n) == [j |-> "number", n |-> n]
JStr(s) == [j |-> "string", s |-> s]
JObj(members) == [j |-> "object", members |-> members]

\* The value a JSON text denotes: of members with the same key the last wins.
RECURSIVE JsonValue(_)
JsonValue(text) ==
    CASE text.j = "null" -> Null
      [] text.j = "number" -> Num(text.n)
      [] text.j = "string" -> Str(text.s)
      [] text.j = "object" ->
            LET ms == text.members
                keys == {ms[i][1] : i \in 1..Len(ms)}
                last(k) == CHOOSE i \in 1..Len(ms) :
                              /\ ms[i][1] = k
                              /\ \A j \in 1..Len(ms) : ms[j][1] = k => j <= i
            IN  Obj([k \in keys |-> JsonValue(ms[last(k)][2])])

Digits == {"0", "1", "2", "3", "4", "5", "6", "7", "8", "9"}
DigitValue(c) ==
    CASE c = "0" -> 0 [] c = "1" -> 1 [] c = "2" -> 2 [] c = "3" -> 3
      [] c = "4" -> 4 [] c = "5" -> 5 [] c = "6" -> 6 [] c = "7" -> 7
      [] c = "8" -> 8 [] c = "9" -> 9

\* The number the leading digits of s denote, from the value so far.
RECURSIVE LeadingNumber(_, _)
LeadingNumber(s, acc) ==
    IF s = <<>> \/ s[1] \notin Digits THEN acc
    ELSE LeadingNumber(Tail(s), 10 * acc + DigitValue(s[1]))

\* What a frame on the wire is: characters, or a JSON text by its structure.
CharsFrame(chars) == [kind |-> "chars", chars |-> chars]
JsonFrame(text) == [kind |-> "json", text |-> text]

\* JSON.parse(frame): SyntaxError for characters that are no JSON text (of
\* the character frames only digits and the word null are).
JsonParse(frame) ==
    IF frame.kind = "json" THEN Returned(JsonValue(frame.text))
    ELSE IF frame.chars = <<"n", "u", "l", "l">> THEN Returned(Null)
    ELSE IF frame.chars # <<>> /\ \A i \in 1..Len(frame.chars) : frame.chars[i] \in Digits
         THEN Returned(Num(LeadingNumber(frame.chars, 0)))
    ELSE Thrown

\* ------------------------------------------- WiFiService: socket messages

\* What a receive handler did with one frame: whether an exception left it,
\* and the record it built and logged (if any).
Dropped == [raised |-> FALSE, decoded |-> FALSE]
Decoded(record, timestamp) ==
    [raised |-> FALSE, decoded |-> TRUE, record |-> record, timestamp |-> timestamp]
Raised == [raised |-> TRUE, decoded |-> FALSE]

\* handleDataMessage(deviceId, message): the record is built from
\* message.data and logged; nothing is emitted.
HandleDataMessage(message) ==
    LET data == Prop(message, "data").value
    IN  IF Prop(data, "heartRate").thrown THEN Thrown
        ELSE Returned(Decoded([f \in DataFields |-> Prop(data, f).value],
                              Or(Prop(message, "timestamp").value, Num(Now))))

\* handleMessage(deviceId, message): the switch on message.type; the status
\* and error handlers and the default branch only log.
HandleMessage(message) ==
    IF Prop(message, "type").thrown THEN Thrown
    ELSE LET type == Prop(message, "type").value
         IN  IF type = Str("data") THEN HandleDataMessage(message)
             ELSE Returned(Dropped)

\* ws.onmessage: JSON.parse and handleMessage inside try/catch.
OnMessage(frame) ==
    LET parsed == JsonParse(frame)
    IN  IF parsed.thrown THEN Dropped
        ELSE LET r == HandleMessage(parsed.value)
             IN  IF r.thrown THEN Dropped ELSE r.value

\* BluetoothService's characteristicvaluechanged listener, as an outcome.
OnCharacteristicValue(value) ==
    LET r == HandleDataReceived(value)
    IN  IF r.decoded THEN Decoded(r.record, Num(r.timestamp)) ELSE Dropped

\* ---------------------------------------------- SerialService: text lines

Whitespace == {" ", "\t", "\r", "\n"}

\* String.prototype.trim
RECURSIVE Trim(_)
Trim(s) ==
    IF s = <<>> THEN s
    ELSE IF s[1] \in Whitespace THEN Trim(Tail(s))
    ELSE IF s[Len(s)] \in Whitespace THEN Trim(SubSeq(s, 1, Len(s) - 1))
    ELSE s

\* String.prototype.split(sep) for a one-character separator.
RECURSIVE Split(_, _)
Split(s, sep) ==
    IF \A i \in 1..Len(s) : s[i] # sep THEN <<s>>
    ELSE LET i == CHOOSE k \in 1..Len(s) :
                     s[k] = sep /\ \A j \in 1..(k - 1) : s[j] # sep
         IN  <<SubSeq(s, 1, i - 1)>> \o Split(SubSeq(s, i + 1, Len(s)), sep)

\* parseFloat(s) of a trimmed string made of digits and other characters
\* (signs, fractions and exponents are outside the frames considered): NaN
\* unless it begins with a digit.
ParseFloat(s) == LeadingNumber(s, 0)

\* A test of the number's truth in place of isNaN: 0 is taken for no number.
IsNaNFloatMutant(s) == s = <<>> \/ s[1] \notin Digits \/ ParseFloat(s) = 0

\* isNaN(parseFloat(s))
IsNaNFloat(s) == s = <<>> \/ s[1] \notin Digits

\* The for loop of parseSimpleData over the pairs from index i on.
RECURSIVE ParsePairs(_, _, _)
ParsePairs(pairs, i, result) ==
    IF i > Len(pairs) THEN result
    ELSE LET parts == Split(pairs[i], ":")
             key == parts[1]
             hasValue == Len(parts) >= 2 /\ parts[2] # <<>>
         IN  IF key # <<>> /\ hasValue
             THEN LET v == Trim(parts[2])
                      entry == IF ~IsNaNFloat(v) THEN Num(ParseFloat(v)) ELSE Text(v)
                      k == Trim(key)
                  IN  ParsePairs(pairs, i + 1,
                                 [x \in DOMAIN result \cup {k} |->
                                     IF x = k THEN entry ELSE result[x]])
             ELSE ParsePairs(pairs, i + 1, result)

\* parseSimpleData(data)
ParseSimpleData(chars) == Obj(ParsePairs(Split(chars, ","), 1, <<>>))

\* The record processReceivedData builds from parsedData, before the filter;
\* reading a property of null throws.
SerialDeviceData(parsed) ==
    IF Prop(parsed, "heartRate").thrown THEN Thrown
    ELSE LET p(name) == Prop(parsed, name).value
         IN  Returned([f \in DataFields |->
                 CASE f = "heartRate" -> Or(p("heartRate"), p("hr"))
                   [] f = "airQuality" -> Or(p("airQuality"), p("aq"))
                   [] f = "inhalerUsage" -> Or(p("inhalerUsage"), p("usage"))
                   [] f = "inhalerBattery" -> Or(p("inhalerBattery"), p("battery"))
                   [] f = "wearableBattery" -> p("wearableBattery")])

\* processReceivedData without its outer try/catch.
ProcessReceivedDataMutant(line) ==
    LET json == JsonParse(line)
        parsed == IF json.thrown THEN ParseSimpleData(line.chars) ELSE json.value
        r == SerialDeviceData(parsed)
    IN  IF r.thrown THEN Raised
        ELSE IF PopulatedFields(r.value) = {} THEN Dropped
        ELSE Decoded(r.value, Num(Now))

\* processReceivedData(deviceId, data): JSON.parse, else parseSimpleData; the
\* record with timestamp Date.now(), whose undefined entries the filter
\* drops, is logged if it holds more than the timestamp; any exception is
\* caught and logged.
ProcessReceivedData(line) ==
    LET json == JsonParse(line)
        parsed == IF json.thrown THEN ParseSimpleData(line.chars) ELSE json.value
        r == SerialDeviceData(parsed)
    IN  IF r.thrown THEN Dropped
        ELSE IF PopulatedFields(r.value) = {} THEN Dropped
        ELSE Decoded(r.value, Num(Now))

\* --------------------------------------------------------- frame reception

\* Frames received in one behaviour.
MaxFrames == 3

Transports == {"socket", "wireless", "serial"}
NoFrame == [transport |-> "none"]

\* A JSON object text from <<name, text>> members.
Members(ms) == JObj([i \in 1..Len(ms) |-> <<Chars(ms[i][1]), ms[i][2]>>])

\* The socket envelope {type, timestamp, data}.
Envelope(type, timestamp, data) ==
    JsonFrame(Members(<<<<"type", JStr(type)>>, <<"timestamp", JNum(timestamp)>>,
                        <<"data", data>>>>))

\* Socket messages: data envelopes, the other envelope types, and malformed
\* ones (no JSON, JSON null, a data envelope without data).
SocketDataFrames ==
    {Envelope("data", 5, Members(<<<<"heartRate", JNum(75)>>, <<"airQuality", JNum(85)>>>>)),
     Envelope("data", 5, Members(<<<<"inhalerUsage", JNum(0)>>, <<"wearableBattery", JNum(60)>>>>))}
SocketOtherFrames ==
    {Envelope(type, 5, JObj(<<>>)) : type \in {"status", "error", "heartbeat"}}
SocketMalformedFrames ==
    {CharsFrame(<<"{", "h", "r">>), JsonFrame(JNull),
     JsonFrame(Members(<<<<"type", JStr("data")>>, <<"timestamp", JNum(5)>>>>))}

\* TLV frames: whole records, and frames cut short.
WirelessDataFrames ==
    {<<1, 2, 75, 0>>, <<1, 2, 75, 0, 2, 2, 85, 0, 4, 1, 90>>, <<9, 1, 7, 3, 2, 2, 0>>}
WirelessMalformedFrames == {<<1>>, <<1, 2, 75>>, <<4, 1>>, <<1, 2, 75, 0, 2>>}

\* Serial lines: key:value text and JSON objects, and garbage or JSON null.
SerialDataFrames ==
    {CharsFrame(<<"h", "r", ":", "7", "5", ",", "a", "q", ":", "8", "5">>),
     CharsFrame(<<"b", "a", "t", "t", "e", "r", "y", ":", "9", "0">>),
     JsonFrame(Members(<<<<"heartRate", JNum(75)>>, <<"battery", JNum(90)>>>>))}
SerialMalformedFrames ==
    {CharsFrame(<<"#", "?", ":">>), CharsFrame(<<"n", "u", "l", "l">>), JsonFrame(JNull),
     CharsFrame(<<"{", "h", "r">>)}

\* Well-formed frames that carry none of the five fields: a data envelope
\* whose data object is empty, a TLV frame of one record of a type the parser
\* has no case for, a key:value line with a key the decoder does not read.
FieldlessFrames(tr) ==
    CASE tr = "socket" -> {Envelope("data", 5, JObj(<<>>))}
      [] tr = "wireless" -> {<<9, 1, 7>>}
      [] tr = "serial" -> {CharsFrame(<<"t", "y", "p", "e", ":", "7">>)}

FramesOf(tr) ==
    CASE tr = "socket" -> SocketDataFrames \cup SocketOtherFrames
                             \cup SocketMalformedFrames \cup FieldlessFrames(tr)
      [] tr = "wireless" -> WirelessDataFrames \cup WirelessMalformedFrames
                               \cup FieldlessFrames(tr)
      [] tr = "serial" -> SerialDataFrames \cup SerialMalformedFrames
                             \cup FieldlessFrames(tr)

MalformedFrames(tr) ==
    CASE tr = "socket" -> SocketMalformedFrames
      [] tr = "wireless" -> WirelessMalformedFrames
      [] tr = "serial" -> SerialMalformedFrames

RxIdle ==
    /\ rxCount = 0
    /\ rxFrame = NoFrame
    /\ rxOutcome = Dropped
    /\ rxAfterMalformed = [tr \in Transports |-> FALSE]
    /\ reading = TRUE
    /\ telemetryLog = <<>>

\* The bookkeeping of a received frame.
Received(tr, frame, outcome) ==
    /\ rxCount < MaxFrames
    /\ rxCount' = rxCount + 1
    /\ rxFrame' = [transport |-> tr, frame |-> frame]
    /\ rxOutcome' = outcome
    /\ rxAfterMalformed' =
          [rxAfterMalformed EXCEPT ![tr] = @ \/ frame \in MalformedFrames(tr)]

\* A message event on an open socket: ws.onmessage. The handlers log; neither
\* emitData nor emitStatusUpdate is called.
SocketMessage(frame) ==
    /\ Received("socket", frame, OnMessage(frame))
    /\ UNCHANGED <<reading, telemetryLog, statusLog>>
    /\ UNCHANGED <<wifiVars, managerVars>>
    /\ UNCHANGED dataExceptRx

\* A characteristicvaluechanged event: handleDataReceived. The record is
\* logged; emitData is not called.
WirelessNotification(value) ==
    /\ Received("wireless", value, OnCharacteristicValue(value))
    /\ UNCHANGED <<reading, telemetryLog, statusLog>>
    /\ UNCHANGED <<wifiVars, managerVars>>
    /\ UNCHANGED dataExceptRx

\* The read loop of startReading hands a complete line to
\* processReceivedData; an exception leaving it would end the loop in the
\* catch of startReading. The record is logged; emitData is not called.
SerialLine(line) ==
    /\ reading
    /\ LET outcome == ProcessReceivedData(line)
       IN  /\ Received("serial", line, outcome)
           /\ reading' = ~outcome.raised
    /\ UNCHANGED <<telemetryLog, statusLog>>
    /\ UNCHANGED <<wifiVars, managerVars>>
    /\ UNCHANGED dataExceptRx

\* ------------------------------------------------------ decoders on inputs

\* TLV records in one frame.
MaxRecords == 3

NoInput == [kind |-> "none"]

CodecIdle ==
    /\ codecIn = NoInput
    /\ codecOut = Dropped

\* The inputs to choose from: those of S while no input has been decoded.
Untried(S) == IF codecIn = NoInput THEN S ELSE {}

\* TLV records as the firmware writes them: type, length byte, payload of
\* that length. The recognized types carry their documented width (u16 for
\* 0x01-0x03, u8 for 0x04); type 0x09 stands for the types the parser has
\* no case for.
TlvBytes == {1, 75}
TlvRecords ==
    {[type |-> t, payload |-> p] : t \in {1, 2, 3}, p \in {<<75, 0>>, <<1, 1>>}}
    \cup {[type |-> 4, payload |-> <<b>>] : b \in TlvBytes}
    \cup {[type |-> 9, payload |-> p] :
             p \in {<<>>} \cup {<<a>> : a \in TlvBytes}
                          \cup {<<a, b>> : a \in TlvBytes, b \in TlvBytes}}

TlvRecordLists == UNION {[1..n -> TlvRecords] : n \in 1..MaxRecords}

\* The bytes of a frame holding the records from index i on: for each, its
\* type, its length and its payload.
RECURSIVE TlvFrame(_, _)
TlvFrame(records, i) ==
    IF i > Len(records) THEN <<>>
    ELSE <<records[i].type, Len(records[i].payload)>> \o records[i].payload
           \o TlvFrame(records, i + 1)

\* A data notification holding the given records is parsed.
DecodeTlv(records) ==
    /\ codecIn = NoInput
    /\ codecIn' = [kind |-> "tlv", records |-> records]
    /\ codecOut' = ParseDeviceData(TlvFrame(records, 1))
    /\ UNCHANGED <<wifiVars, statusLog, managerVars>>
    /\ UNCHANGED dataExceptCodec

\* Records of a recognized type whose length byte is smaller than the width
\* of the field: no payload byte, or one where the field has two.
ShortTlvRecords ==
    {[type |-> t, payload |-> p] : t \in {1, 2, 3}, p \in {<<>>, <<75>>}}
    \cup {[type |-> 4, payload |-> <<>>]}

\* A data notification that starts with a short record, alone or followed by
\* a record of documented width, is parsed.
DecodeShortTlv(short, rest) ==
    /\ codecIn = NoInput
    /\ codecIn' = [kind |-> "shortTlv", records |-> <<short>> \o rest]
    /\ codecOut' = ParseDeviceData(TlvFrame(<<short>> \o rest, 1))
    /\ UNCHANGED <<wifiVars, statusLog, managerVars>>
    /\ UNCHANGED dataExceptCodec

\* The short keys of the serial key:value format and the fields they stand for.
KvKeys == {"hr", "aq", "usage", "battery"}
KvValues == {0, 7, 75}

\* Key:value lists with each key at most once, in any order.
KvPairLists ==
    {pairs \in UNION {[1..n -> KvKeys \X KvValues] : n \in 1..Cardinality(KvKeys)} :
        \A i, j \in 1..Len(pairs) : pairs[i][1] = pairs[j][1] => i = j}

\* The decimal digits of a number, as the device prints it.
RECURSIVE DigitsOf(_)
DigitsOf(n) ==
    LET d == CHOOSE c \in Digits : DigitValue(c) = n % 10
    IN  IF n < 10 THEN <<d>> ELSE DigitsOf(n \div 10) \o <<d>>

\* The line "k1:v1,k2:v2,..." of the pairs from index i on.
RECURSIVE KvLine(_, _)
KvLine(pairs, i) ==
    LET pair == Chars(pairs[i][1]) \o <<":">> \o DigitsOf(pairs[i][2])
    IN  IF i = Len(pairs) THEN pair ELSE pair \o <<",">> \o KvLine(pairs, i + 1)

\* A key:value line is handed to processReceivedData.
DecodeSerialText(pairs) ==
    /\ codecIn = NoInput
    /\ codecIn' = [kind |-> "text", pairs |-> pairs]
    /\ codecOut' = ProcessReceivedData(CharsFrame(KvLine(pairs, 1)))
    /\ UNCHANGED <<wifiVars, statusLog, managerVars>>
    /\ UNCHANGED dataExceptCodec

\* DeviceData records with at least one optional field set, over a few
\* values (0, a one-byte value, a two-byte value).
DataValues == {0, 75, 300}
DataRecords ==
    {r \in [DataFields -> {Undefined} \cup {Num(n) : n \in DataValues}] :
        PopulatedFields(r) # {}}

\* The records the TLV format has room for: no type code for wearableBattery,
\* one byte for the battery level.
TlvDataRecords ==
    {r \in DataRecords :
        /\ r["wearableBattery"] = Undefined
        /\ r["inhalerBattery"] # Undefined => r["inhalerBattery"].n < 256}

\* The order in which a device writes the fields.
FieldOrder == <<"heartRate", "airQuality", "inhalerUsage", "inhalerBattery",
                "wearableBattery">>
WrittenFields(record) == SelectSeq(FieldOrder, LAMBDA f : record[f] # Undefined)

\* The TLV records a device sends for a record: type code, then the value
\* little endian (u16) or as one byte (battery).
TlvRecordsOf(record) ==
    LET fs == WrittenFields(record)
    IN  [i \in 1..Len(fs) |->
           LET n == record[fs[i]].n
           IN  CASE fs[i] = "heartRate" -> [type |-> 1, payload |-> <<n % 256, n \div 256>>]
                 [] fs[i] = "airQuality" -> [type |-> 2, payload |-> <<n % 256, n \div 256>>]
                 [] fs[i] = "inhalerUsage" -> [type |-> 3, payload |-> <<n % 256, n \div 256>>]
                 [] fs[i] = "inhalerBattery" -> [type |-> 4, payload |-> <<n>>]]

\* JSON.stringify of a record: the members that are not undefined.
JsonOfRecord(record) ==
    LET fs == WrittenFields(record)
    IN  Members([i \in 1..Len(fs) |-> <<fs[i], JNum(record[fs[i]].n)>>])

\* The key:value line of a record: the short keys, and the full name for
\* the field that has none.
TextOfRecord(record) ==
    LET fs == WrittenFields(record)
        key(f) == CASE f = "heartRate" -> "hr"
                    [] f = "airQuality" -> "aq"
                    [] f = "inhalerUsage" -> "usage"
                    [] f = "inhalerBattery" -> "battery"
                    [] f = "wearableBattery" -> "wearableBattery"
    IN  KvLine([i \in 1..Len(fs) |-> <<key(fs[i]), record[fs[i]].n>>], 1)

\* The wireless decoder's result as a receive outcome.
TlvOutcome(r) == IF r.thrown THEN Dropped ELSE Decoded(r.value, Num(Now))

\* A record is sent as a TLV notification and parsed.
RoundTripTlv(record) ==
    /\ codecIn = NoInput
    /\ codecIn' = [kind |-> "record", transport |-> "wireless", record |-> record]
    /\ codecOut' = TlvOutcome(ParseDeviceData(TlvFrame(TlvRecordsOf(record), 1)))
    /\ UNCHANGED <<wifiVars, statusLog, managerVars>>
    /\ UNCHANGED dataExceptCodec

\* A record is sent in a socket data envelope and handled by ws.onmessage.
RoundTripSocket(record) ==
    /\ codecIn = NoInput
    /\ codecIn' = [kind |-> "record", transport |-> "socket", record |-> record]
    /\ codecOut' = OnMessage(Envelope("data", 5, JsonOfRecord(record)))
    /\ UNCHANGED <<wifiVars, statusLog, managerVars>>
    /\ UNCHANGED dataExceptCodec

\* A record is sent as a JSON line on serial.
RoundTripSerialJson(record) ==
    /\ codecIn = NoInput
    /\ codecIn' = [kind |-> "record", transport |-> "serial-json", record |-> record]
    /\ codecOut' = ProcessReceivedData(JsonFrame(JsonOfRecord(record)))
    /\ UNCHANGED <<wifiVars, statusLog, managerVars>>
    /\ UNCHANGED dataExceptCodec

\* A record is sent as a key:value line on serial.
RoundTripSerialText(record) ==
    /\ codecIn = NoInput
    /\ codecIn' = [kind |-> "record", transport |-> "serial-text", record |-> record]
    /\ codecOut' = ProcessReceivedData(CharsFrame(TextOfRecord(record)))
    /\ UNCHANGED <<wifiVars, statusLog, managerVars>>
    /\ UNCHANGED dataExceptCodec

\* ------------------------------------------- SerialService: the read loop

\* Bytes delivered by the port in one behaviour, and in one read.
MaxStream == 5
MaxChunk == 2

\* The bytes on the line: newline, 'a', space, and the two bytes of the
\* UTF-8 encoding of U+00E9.
ByteLF == 10
ByteA == 97
ByteSpace == 32
ByteLead == 195
ByteCont == 169
StreamBytes == {ByteLF, ByteA, ByteSpace, ByteLead, ByteCont}

Chunks == UNION {[1..n -> StreamBytes] : n \in 1..MaxChunk}

ReadIdle ==
    /\ stream = <<>>
    /\ buffer = <<>>
    /\ frames = <<>>

\* new TextDecoder().decode(bytes): each call decodes its bytes on their
\* own; a lead byte without its continuation byte, and a continuation byte
\* without its lead byte, become U+FFFD.
RECURSIVE Utf8Decode(_)
Utf8Decode(bytes) ==
    IF bytes = <<>> THEN <<>>
    ELSE CASE bytes[1] = ByteLF -> <<"\n">> \o Utf8Decode(Tail(bytes))
           [] bytes[1] = ByteA -> <<"a">> \o Utf8Decode(Tail(bytes))
           [] bytes[1] = ByteSpace -> <<" ">> \o Utf8Decode(Tail(bytes))
           [] bytes[1] = ByteLead ->
                IF Len(bytes) >= 2 /\ bytes[2] = ByteCont
                THEN <<"e-acute">> \o Utf8Decode(Tail(Tail(bytes)))
                ELSE <<"U+FFFD">> \o Utf8Decode(Tail(bytes))
           [] bytes[1] = ByteCont -> <<"U+FFFD">> \o Utf8Decode(Tail(bytes))

\* The for loop over the complete lines: those that are not blank are
\* handed on, trimmed.
RECURSIVE TrimmedNonBlank(_)
TrimmedNonBlank(lines) ==
    IF lines = <<>> THEN <<>>
    ELSE (IF Trim(lines[1]) # <<>> THEN <<Trim(lines[1])>> ELSE <<>>)
           \o TrimmedNonBlank(Tail(lines))

\* One turn of the while loop of startReading: reader.read() returns a chunk,
\* it is decoded and appended to the buffer, the buffer is split on newline,
\* the last piece stays in the buffer and the others are processed.
ReadChunk(chunk) ==
    /\ Len(stream) + Len(chunk) <= MaxStream
    /\ stream' = stream \o chunk
    /\ LET lines == Split(buffer \o Utf8Decode(chunk), "\n")
       IN  /\ buffer' = lines[Len(lines)]
           /\ frames' = frames \o TrimmedNonBlank(SubSeq(lines, 1, Len(lines) - 1))
    /\ UNCHANGED <<wifiVars, statusLog, managerVars>>
    /\ UNCHANGED dataExceptRead

\* ------------------------------------- AIHealthPredictor: the history buffer

\* addDataPoint calls in one behaviour.
MaxInsertions == 130

\* The number of data points addDataPoint keeps.
HistoryLimit == 100

\* Times the feeding interval is stopped and restarted in one behaviour.
MaxPauses == 1

\* The period of the interval that feeds addDataPoint, in milliseconds.
FeedPeriod == 3000

\* The longest time between two calls: monitoring was stopped in between.
PauseTime == 360000

\* dataRetention.retentionTime, in milliseconds.
RetentionTime == 300000

HistoryIdle ==
    /\ historicalData = <<>>
    /\ inserted = 0
    /\ timestamps = <<>>
    /\ clock = 0
    /\ pauses = 0

\* A slice that keeps the first n elements.
SliceLastMutant(array, n) == SubSeq(array, 1, n)

\* array.slice(-n) of an array longer than n
SliceLast(array, n) == SubSeq(array, Len(array) - n + 1, Len(array))

\* addDataPoint(data): push, then keep the last 100 if there are more. The
\* data point is identified by the number of its insertion.
\* The caller stamps the point with Date.now(): the feeding interval's period
\* after the previous call, or later when monitoring was stopped in between.
AddDataPoint(elapsed) ==
    /\ inserted < MaxInsertions
    /\ elapsed = PauseTime => pauses < MaxPauses
    /\ pauses' = IF elapsed = PauseTime THEN pauses + 1 ELSE pauses
    /\ inserted' = inserted + 1
    /\ clock' = clock + elapsed
    /\ LET pushed == Append(historicalData, inserted + 1)
           stamped == Append(timestamps, clock + elapsed)
       IN  IF Len(pushed) > HistoryLimit
           THEN /\ historicalData' = SliceLast(pushed, HistoryLimit)
                /\ timestamps' = SliceLast(stamped, HistoryLimit)
           ELSE /\ historicalData' = pushed
                /\ timestamps' = stamped
    /\ UNCHANGED <<wifiVars, statusLog, managerVars>>
    /\ UNCHANGED dataExceptHistory

\* ------------------------- BluetoothService and SerialService: the handles

\* Writes awaiting the device per id at one time.
MaxWrites == 2

BluetoothIds == {"bt-1"}
SerialIds == {"serial-1"}

NoReturn == [transport |-> "none", op |-> "none", value |-> FALSE]
Return(transport, op, value) == [transport |-> transport, op |-> op, value |-> value]

\* The maps of both services are empty after construction.
HandlesIdle ==
    /\ connectedDevices = {}
    /\ characteristics = {}
    /\ gattConnected = {}
    /\ btWrites = [d \in BluetoothIds |-> 0]
    /\ readers = {}
    /\ writers = {}
    /\ connectedPorts = {}
    /\ openPorts = {}
    /\ serialWrites = [d \in SerialIds |-> 0]
    /\ releasing = [d \in SerialIds |-> "none"]
    /\ returned = NoReturn

\* BluetoothService.connectToDevice(deviceId), with what the platform does:
\* "connected" runs to the end; "refused" throws before the GATT server is
\* connected; "notifyFails" throws in startNotifications, after the
\* characteristics were stored and before connectedDevices.set.
BtConnectToDevice(d, outcome) ==
    /\ gattConnected' = IF outcome = "refused" THEN gattConnected
                        ELSE gattConnected \cup {d}
    /\ characteristics' = IF outcome = "refused" THEN characteristics
                          ELSE characteristics \cup {d}
    /\ connectedDevices' = IF outcome = "connected" THEN connectedDevices \cup {d}
                           ELSE connectedDevices
    /\ returned' = Return("bluetooth", "connect", outcome = "connected")
    /\ UNCHANGED <<btWrites, serialVars>>
    /\ UNCHANGED <<wifiVars, statusLog, managerVars>>
    /\ UNCHANGED dataExceptHandles

\* BluetoothService.sendCommand(deviceId, ...) up to its await: without a
\* command characteristic it returns false, else writeValue is awaited.
BtSendCommand(d) ==
    /\ IF d \notin characteristics
       THEN /\ returned' = Return("bluetooth", "send", FALSE)
            /\ UNCHANGED btWrites
       ELSE /\ btWrites[d] < MaxWrites
            /\ btWrites' = [btWrites EXCEPT ![d] = @ + 1]
            /\ returned' = NoReturn
    /\ UNCHANGED <<connectedDevices, characteristics, gattConnected, serialVars>>
    /\ UNCHANGED <<wifiVars, statusLog, managerVars>>
    /\ UNCHANGED dataExceptHandles

\* The awaited writeValue settles; on a disconnected GATT server it rejects.
BtWriteSettles(d, ok) ==
    /\ btWrites[d] > 0
    /\ ok => d \in gattConnected
    /\ btWrites' = [btWrites EXCEPT ![d] = @ - 1]
    /\ returned' = Return("bluetooth", "send", ok)
    /\ UNCHANGED <<connectedDevices, characteristics, gattConnected, serialVars>>
    /\ UNCHANGED <<wifiVars, statusLog, managerVars>>
    /\ UNCHANGED dataExceptHandles

\* BluetoothService.disconnectDevice(deviceId): gatt.disconnect() for a device
\* in connectedDevices whose server is connected, then the map entries are
\* deleted; it has no await.
BtDisconnectDevice(d) ==
    /\ gattConnected' = IF d \in connectedDevices THEN gattConnected \ {d}
                        ELSE gattConnected
    /\ characteristics' = characteristics \ {d}
    /\ connectedDevices' = connectedDevices \ {d}
    /\ returned' = Return("bluetooth", "disconnect", TRUE)
    /\ UNCHANGED <<btWrites, serialVars>>
    /\ UNCHANGED <<wifiVars, statusLog, managerVars>>
    /\ UNCHANGED dataExceptHandles

\* SerialService.connectToDevice(deviceId, config): port.open() rejects for a
\* port that is open; else the platform opens it ("connected") or not.
SerialConnectToDevice(d, outcome) ==
    /\ IF outcome = "connected" /\ d \notin openPorts
       THEN /\ openPorts' = openPorts \cup {d}
            /\ connectedPorts' = connectedPorts \cup {d}
            /\ readers' = readers \cup {d}
            /\ writers' = writers \cup {d}
            /\ returned' = Return("serial", "connect", TRUE)
       ELSE /\ returned' = Return("serial", "connect", FALSE)
            /\ UNCHANGED <<openPorts, connectedPorts, readers, writers>>
    /\ UNCHANGED <<serialWrites, releasing, btVars>>
    /\ UNCHANGED <<wifiVars, statusLog, managerVars>>
    /\ UNCHANGED dataExceptHandles

\* SerialService.sendCommand(deviceId, ...) up to its await: without a writer
\* it returns false; a write on a writer whose close() was called rejects at
\* once; else writer.write is awaited.
SerialSendCommand(d) ==
    /\ IF d \notin writers \/ releasing[d] = "close"
       THEN /\ returned' = Return("serial", "send", FALSE)
            /\ UNCHANGED serialWrites
       ELSE /\ serialWrites[d] < MaxWrites
            /\ serialWrites' = [serialWrites EXCEPT ![d] = @ + 1]
            /\ returned' = NoReturn
    /\ UNCHANGED <<readers, writers, connectedPorts, openPorts, releasing, btVars>>
    /\ UNCHANGED <<wifiVars, statusLog, managerVars>>
    /\ UNCHANGED dataExceptHandles

\* The awaited writer.write settles.
SerialWriteSettles(d, ok) ==
    /\ serialWrites[d] > 0
    /\ serialWrites' = [serialWrites EXCEPT ![d] = @ - 1]
    /\ returned' = Return("serial", "send", ok)
    /\ UNCHANGED <<readers, writers, connectedPorts, openPorts, releasing, btVars>>
    /\ UNCHANGED <<wifiVars, statusLog, managerVars>>
    /\ UNCHANGED dataExceptHandles

\* The next await of SerialService.disconnectDevice, given the maps as they
\* are when it gets there: reader.cancel(), writer.close(), port.close(), or
\* none (it returns true).
NextRelease(d, rs, ws, ps) ==
    IF d \in rs THEN "cancel"
    ELSE IF d \in ws THEN "close"
    ELSE IF d \in ps THEN "portClose"
    ELSE "none"

\* disconnectDevice goes on to its next await, or returns true.
ReleaseNext(d, rs, ws, ps) ==
    LET step == NextRelease(d, rs, ws, ps)
    IN  /\ releasing' = [releasing EXCEPT ![d] = step]
        /\ returned' = IF step = "none" THEN Return("serial", "disconnect", TRUE)
                       ELSE NoReturn

\* The catch of disconnectDevice: log, return false.
ReleaseFails(d) ==
    /\ releasing' = [releasing EXCEPT ![d] = "none"]
    /\ returned' = Return("serial", "disconnect", FALSE)

\* SerialService.disconnectDevice(deviceId) up to its first await (one call
\* per id at a time).
SerialDisconnectDevice(d) ==
    /\ releasing[d] = "none"
    /\ ReleaseNext(d, readers, writers, connectedPorts)
    /\ UNCHANGED <<readers, writers, connectedPorts, openPorts, serialWrites, btVars>>
    /\ UNCHANGED <<wifiVars, statusLog, managerVars>>
    /\ UNCHANGED dataExceptHandles

\* await reader.cancel() settles: releaseLock and readers.delete, or the
\* rejection (the stream has errored) goes to the catch.
CancelSettles(d, ok) ==
    /\ releasing[d] = "cancel"
    /\ IF ok
       THEN /\ readers' = readers \ {d}
            /\ ReleaseNext(d, readers', writers, connectedPorts)
       ELSE /\ ReleaseFails(d)
            /\ UNCHANGED readers
    /\ UNCHANGED <<writers, connectedPorts, openPorts, serialWrites, btVars>>
    /\ UNCHANGED <<wifiVars, statusLog, managerVars>>
    /\ UNCHANGED dataExceptHandles

\* await writer.close() settles: the stream closes once the chunks written
\* before are through, then writers.delete; or the rejection goes to the catch.
CloseSettles(d, ok) ==
    /\ releasing[d] = "close"
    /\ IF ok
       THEN /\ serialWrites[d] = 0
            /\ writers' = writers \ {d}
            /\ ReleaseNext(d, readers, writers', connectedPorts)
       ELSE /\ ReleaseFails(d)
            /\ UNCHANGED writers
    /\ UNCHANGED <<readers, connectedPorts, openPorts, serialWrites, btVars>>
    /\ UNCHANGED <<wifiVars, statusLog, managerVars>>
    /\ UNCHANGED dataExceptHandles

\* await port.close() settles: connectedPorts.delete and return true, or the
\* rejection goes to the catch.
PortCloseSettles(d, ok) ==
    /\ releasing[d] = "portClose"
    /\ IF ok
       THEN /\ openPorts' = openPorts \ {d}
            /\ connectedPorts' = connectedPorts \ {d}
            /\ ReleaseNext(d, readers, writers, connectedPorts')
       ELSE /\ ReleaseFails(d)
            /\ UNCHANGED <<openPorts, connectedPorts>>
    /\ UNCHANGED <<readers, writers, serialWrites, btVars>>
    /\ UNCHANGED <<wifiVars, statusLog, managerVars>>
    /\ UNCHANGED dataExceptHandles

\* ---------------------------------------------------------- specifications

\* The state after construction of the parts a specification leaves alone.
DataIdle ==
    /\ SendIdle /\ BusIdle /\ RxIdle /\ CodecIdle /\ ReadIdle /\ HistoryIdle
    /\ HandlesIdle

\* WiFiService on its own: no IoTManager call is made.
Init == InitWifi /\ ManagerIdle /\ DataIdle

Next ==
    \/ \E d \in WifiIds, cfg \in Configs : ConnectToDevice(d, cfg)
    \/ \E d \in WifiIds, cfg \in Configs : ConnectToDeviceThrows(d, cfg)
    \/ \E s \in sockets : OnOpen(s)
    \/ \E s \in sockets : OnConnectError(s)
    \/ \E s \in sockets : OnCloseBeforeOpen(s)
    \/ \E s \in sockets : OnConnectTimeout(s)
    \/ \E s \in sockets : OnCloseAfterTimeout(s)
    \/ \E s \in sockets : OnClose(s)
    \/ \E d \in WifiIds : DisconnectDevice(d)
    \/ \E t \in timers : FireTimer(t)
    \/ \E t \in timers : FireTimerThrows(t)
    \/ Cleanup

Spec == Init /\ [][Next]_vars

\* IoTManager and the hook on their own: WiFiService is never called.
InitIoT == InitWifi /\ InitManager /\ DataIdle

NextIoT ==
    \/ \E d \in ManagerIds : ManagerConnectToDevice(d)
    \/ \E d \in ManagerIds : \E o \in TransportOutcomes(d) : ConnectSettles(d, o)
    \/ \E d \in ManagerIds : ManagerDisconnectDevice(d)
    \/ \E d \in ManagerIds : \E o \in TransportOutcomes(d) : DisconnectSettles(d, o)
    \/ \E d \in ManagerIds : HookTimerFires(d)
    \/ ScanForDevices
    \/ \E found \in SUBSET ManagerIds : ScanSettles(found)

SpecIoT == InitIoT /\ [][NextIoT]_vars


\* sendCommand next to the calls that change a device's status.
InitSendSpec == InitWifi /\ InitSend /\ DataIdle

NextSend ==
    \/ \E d \in ManagerIds : ManagerSendCommand(d)
    \/ \E d \in ManagerIds : \E o \in TransportOutcomes(d) : SendSettles(d, o)
    \/ \E d \in ManagerIds : ManagerConnectToDevice(d)
    \/ \E d \in ManagerIds : \E o \in TransportOutcomes(d) : ConnectSettles(d, o)
    \/ \E d \in ManagerIds : ManagerDisconnectDevice(d)
    \/ \E d \in ManagerIds : \E o \in TransportOutcomes(d) : DisconnectSettles(d, o)

SpecSend == InitSendSpec /\ [][NextSend]_vars

\* The subscriber sets and the two emit functions of IoTManager.
NextBus ==
    \/ \E cb \in Callbacks : OnDataReceived(cb)
    \/ \E cb \in Callbacks : UnsubscribeData(cb)
    \/ \E cb \in Callbacks : OnStatusChanged(cb)
    \/ \E cb \in Callbacks : UnsubscribeStatus(cb)
    \/ EmitData
    \/ EmitStatus

SpecBus == Init /\ [][NextBus]_vars

\* The receive handlers of the three transports.
NextRx ==
    \/ \E frame \in FramesOf("socket") : SocketMessage(frame)
    \/ \E value \in FramesOf("wireless") : WirelessNotification(value)
    \/ \E line \in FramesOf("serial") : SerialLine(line)

SpecRx == Init /\ [][NextRx]_vars

\* The decoders applied to one input each.
NextCodec ==
    \/ \E records \in Untried(TlvRecordLists) : DecodeTlv(records)
    \/ \E short \in Untried(ShortTlvRecords) :
          \E rest \in {<<>>} \cup {<<r>> : r \in TlvRecords} : DecodeShortTlv(short, rest)
    \/ \E pairs \in Untried(KvPairLists) : DecodeSerialText(pairs)
    \/ \E record \in Untried(TlvDataRecords) : RoundTripTlv(record)
    \/ \E record \in Untried(DataRecords) : RoundTripSocket(record)
    \/ \E record \in Untried(DataRecords) : RoundTripSerialJson(record)
    \/ \E record \in Untried(DataRecords) : RoundTripSerialText(record)

SpecCodec == Init /\ [][NextCodec]_vars

\* The serial read loop on chunks of a byte stream.
NextSerialRead ==
    \/ \E chunk \in Chunks : ReadChunk(chunk)

SpecSerialRead == Init /\ [][NextSerialRead]_vars

\* The history buffer of AIHealthPredictor.
NextHistory ==
    \/ \E elapsed \in {FeedPeriod, PauseTime} : AddDataPoint(elapsed)

SpecHistory == Init /\ [][NextHistory]_vars

\* The wireless and the serial service: connect, send and disconnect calls.
NextHandles ==
    \/ \E d \in BluetoothIds :
          \E o \in {"connected", "refused", "notifyFails"} : BtConnectToDevice(d, o)
    \/ \E d \in BluetoothIds : BtSendCommand(d)
    \/ \E d \in BluetoothIds : \E ok \in BOOLEAN : BtWriteSettles(d, ok)
    \/ \E d \in BluetoothIds : BtDisconnectDevice(d)
    \/ \E d \in SerialIds :
          \E o \in {"connected", "refused"} : SerialConnectToDevice(d, o)
    \/ \E d \in SerialIds : SerialSendCommand(d)
    \/ \E d \in SerialIds : \E ok \in BOOLEAN : SerialWriteSettles(d, ok)
    \/ \E d \in SerialIds : SerialDisconnectDevice(d)
    \/ \E d \in SerialIds : \E ok \in BOOLEAN : CancelSettles(d, ok)
    \/ \E d \in SerialIds : \E ok \in BOOLEAN : CloseSettles(d, ok)
    \/ \E d \in SerialIds : \E ok \in BOOLEAN : PortCloseSettles(d, ok)

SpecHandles == Init /\ [][NextHandles]_vars

\* --------------------------------------------------------------- claims

\* C1: once an open connection of a device with a stored config is lost
\* unsolicited and the reconnect attempts keep failing, WiFiService starts at
\* most maxReconnectAttempts automatic connect attempts until the caller calls
\* connectToDevice again.
C1_AutoAttemptsCapped ==
    \A d \in WifiIds : lossSeen[d] => autoAttempts[d] <= MaxReconnectAttempts

\* C2: at most one open transport connection exists per device id in every
\* reachable state.
C2_AtMostOneOpenConnection ==
    \A d \in WifiIds : Cardinality(OpenSocketsOf(d)) <= 1

\* C3: when a connect the caller started fails before it opened (error,
\* close before open, or the close that follows the connection timeout), no
\* reconnect timer is armed for the device.
C3_NoRetryAfterCallerConnectFails ==
    [][\A s \in sockets :
         (~s.auto /\ ~s.est /\ (\A s2 \in sockets' : s2.id # s.id))
            => {t \in timers' : t.dev = s.dev} \subseteq timers]_vars

\* C4: after a manual disconnectDevice(id), and until the caller asks for a
\* connect again, no reconnect timer is pending for id, its attempt count is
\* cleared and no automatic connect attempt is started for it.
C4_QuietAfterManualDisconnect ==
    \A d \in WifiIds :
        manuallyOff[d] =>
            /\ TimersOf(d) = {}
            /\ reconnectAttempts[d] = Absent
            /\ autoAttempts[d] = 0

\* The terminal ('error') status events delivered for a device.
TerminalEvents(d) ==
    {i \in 1..Len(statusLog) : statusLog[i].id = d /\ statusLog[i].status = "error"}

\* C5: when the automatic reconnection of a device has reached the attempt
\* cap, exactly one terminal status event for it has been delivered to the
\* status subscribers.
C5_OneTerminalEventAtCap ==
    \A d \in WifiIds :
        AttemptsOr0(reconnectAttempts, d) >= MaxReconnectAttempts
            => Cardinality(TerminalEvents(d)) = 1

LastEventIs(d, status) ==
    /\ Len(statusLog) > 0
    /\ statusLog[Len(statusLog)] = [id |-> d, status |-> status]

C9_UnknownIdReturnsFalse ==
    [][\A d \in ManagerIds :
         devices[d] = Unregistered
            => /\ pendingConnect'[d] = 0
               /\ (ret'.op = "connect" /\ ret'.dev = d)
                    => /\ ret'.value = FALSE
                       /\ statusLog' = statusLog
                       /\ devices' = devices]_vars

\* C9's case: the call on an unknown id has returned false while another
\* device is registered.
C9_Witness ==
    /\ ret.op = "connect"
    /\ devices[ret.dev] = Unregistered
    /\ ret.value = FALSE
    /\ \E e \in ManagerIds : devices[e] = "connecting"

HookQuietAfterManualDisconnect ==
    (ret.op = "disconnect" /\ autoReconnect) => hookTimers[ret.dev] = 0

\* C11: sendCommand(id) returns false without invoking a transport send
\* whenever id is unregistered or its status is not 'connected': a step from a
\* state where id is not 'connected' starts no send for id, and what it
\* returns for a sendCommand(id) that awaited nothing is false; every
\* transport send is invoked while the device's status is 'connected'.
C11_SendOnlyWhileConnected ==
    [][\A d \in ManagerIds :
          /\ devices[d] # "connected" =>
                /\ pendingSend'[d] <= pendingSend[d]
                /\ (ret'.op = "send" /\ ret'.dev = d
                       /\ pendingSend'[d] = pendingSend[d])
                     => ret'.value = FALSE
          /\ (sendLog' # sendLog /\ sendLog'[Len(sendLog')].dev = d)
                => devices[d] = "connected"]_vars

\* A send was invoked for a connected device, and the last call, for a device
\* that is registered but not connected, returned false at once.
C11_Witness ==
    /\ sendLog # <<>>
    /\ ret.op = "send"
    /\ ret.value = FALSE
    /\ devices[ret.dev] \in {"disconnected", "connecting", "error"}
    /\ pendingSend[ret.dev] = 0

\* C12: when a telemetry or status event is emitted, every callback subscribed
\* to its channel is invoked exactly once, and no other, even if callbacks
\* throw, and no exception reaches the emitter.
C12_EverySubscriberOnce ==
    /\ lastEmit = "data" =>
          /\ ~escaped
          /\ \A cb \in Callbacks :
                invoked[cb] = IF \E i \in 1..Len(dataCallbacks) : dataCallbacks[i] = cb
                              THEN 1 ELSE 0
    /\ lastEmit = "status" =>
          /\ ~escaped
          /\ \A cb \in Callbacks :
                invoked[cb] = IF \E i \in 1..Len(statusCallbacks) : statusCallbacks[i] = cb
                              THEN 1 ELSE 0

\* An emission to three subscribers of which the first throws.
C12_Witness ==
    /\ lastEmit = "data"
    /\ Len(dataCallbacks) = 3
    /\ Throws(dataCallbacks[1])
    /\ ~Throws(dataCallbacks[2])
    /\ invoked[dataCallbacks[3]] = 1

\* The last frame is a well-formed data frame.
LastFrameIsData ==
    /\ rxFrame.transport \in Transports
    /\ rxFrame.frame \in
          CASE rxFrame.transport = "socket" -> SocketDataFrames
            [] rxFrame.transport = "wireless" -> WirelessDataFrames
            [] rxFrame.transport = "serial" -> SerialDataFrames

\* C13: every well-formed data frame received, on any of the three
\* transports, results in exactly one telemetry event delivered to the data
\* subscribers.
C13_DataFrameEmitsTelemetry ==
    [][(rxCount' = rxCount + 1 /\ LastFrameIsData')
         => Len(telemetryLog') = Len(telemetryLog) + 1]_vars

\* C14: a socket message whose type is status, error or heartbeat produces no
\* telemetry event and exactly one status event, of the message's type.
C14_OtherEnvelopeEmitsStatus ==
    [][\A type \in {"status", "error", "heartbeat"} :
          (/\ rxCount' = rxCount + 1
           /\ rxFrame'.transport = "socket"
           /\ rxFrame'.frame = Envelope(type, 5, JObj(<<>>)))
          => /\ telemetryLog' = telemetryLog
             /\ Len(statusLog') = Len(statusLog) + 1
             /\ statusLog'[Len(statusLog')].status = type]_vars

\* C15: a malformed frame never raises out of the receive handler and never
\* stops reception: no handler lets an exception out, the serial read loop
\* keeps running, and a well-formed data frame that arrives after a malformed
\* one on the same connection is decoded into a record with fields.
C15_MalformedFrameIsSurvived ==
    /\ ~rxOutcome.raised
    /\ reading
    /\ (LastFrameIsData /\ rxAfterMalformed[rxFrame.transport])
          => /\ rxOutcome.decoded
             /\ PopulatedFields(rxOutcome.record) # {}

\* A data line decoded by the serial read loop after a JSON null line.
C15_Witness ==
    /\ rxCount = 2
    /\ rxFrame.transport = "serial"
    /\ LastFrameIsData
    /\ rxAfterMalformed["serial"]
    /\ rxOutcome.decoded

\* The records without the i-th.
WithoutRecord(records, i) ==
    [k \in 1..(Len(records) - 1) |-> IF k < i THEN records[k] ELSE records[k + 1]]

\* C16: in a TLV frame, a record with an unrecognized type byte and a valid
\* length byte is skipped by exactly its declared length and adds no field,
\* and the recognized records after it decode as they would without it: the
\* frame decodes to what the frame without that record decodes to.
C16_UnknownTypeSkipped ==
    codecIn.kind = "tlv" =>
        \A i \in 1..Len(codecIn.records) :
            codecIn.records[i].type \notin {1, 2, 3, 4} =>
                /\ ~codecOut.thrown
                /\ codecOut = ParseDeviceData(TlvFrame(WithoutRecord(codecIn.records, i), 1))

\* A frame whose unknown record, with a payload of one byte that is itself a
\* type code, precedes a heart rate record that is decoded.
C16_Witness ==
    /\ codecIn.kind = "tlv"
    /\ Len(codecIn.records) >= 2
    /\ codecIn.records[1] = [type |-> 9, payload |-> <<1>>]
    /\ codecIn.records[2] = [type |-> 1, payload |-> <<75, 0>>]
    /\ ~codecOut.thrown
    /\ codecOut.value["heartRate"] = Num(75)

\* The field a short key of the serial text format stands for.
FieldOfKey(key) ==
    CASE key = "hr" -> "heartRate"
      [] key = "aq" -> "airQuality"
      [] key = "usage" -> "inhalerUsage"
      [] key = "battery" -> "inhalerBattery"

C18_DecodeEncodeRoundTrip ==
    codecIn.kind = "record" =>
        /\ codecOut.decoded
        /\ \A f \in DataFields : codecOut.record[f] = codecIn.record[f]

\* C19: however the serial byte stream is cut into chunks, the frames handed
\* to the decoder are the non-blank newline-terminated lines of the whole
\* stream (as the decoder gets them, trimmed), and the segment after the last
\* newline is held back: no character is lost or duplicated at a chunk
\* boundary.
C19_FramesAreLinesOfStream ==
    LET lines == Split(Utf8Decode(stream), "\n")
    IN  /\ frames = TrimmedNonBlank(SubSeq(lines, 1, Len(lines) - 1))
        /\ buffer = lines[Len(lines)]

\* C20: after any sequence of insertions the history buffer holds at most
\* the maximum of 100 samples, and they are the most recent insertions in
\* insertion order (the evicted ones are the oldest).
C20_HistoryKeepsNewest ==
    /\ Len(historicalData) <= 100
    /\ Len(historicalData) = IF inserted < 100 THEN inserted ELSE 100
    /\ \A i \in 1..Len(historicalData) :
          historicalData[i] = inserted - Len(historicalData) + i

\* Insertions beyond the maximum have evicted the oldest samples.
C20_Witness ==
    /\ inserted = 120
    /\ Len(historicalData) = 100
    /\ historicalData[1] = 21

\* C21: after every insertion every sample retained in the history buffer
\* has a timestamp within the configured maximum age (5 minutes) of the
\* newest sample.
C21_RetainedWithinMaxAge ==
    \A i \in 1..Len(timestamps) :
        timestamps[Len(timestamps)] - timestamps[i] <= RetentionTime

\* C22: every connectToDevice call of WiFiService completes with a boolean:
\* a socket error or a connection timeout yields false, never a rejected
\* promise, for the application and for the reconnect timer callback alike.
C22_ConnectCompletesWithBoolean ==
    settled # NoSettle => settled.outcome \in {"true", "false"}

\* C23: at every moment at most one reconnect timer is pending per device
\* id: arming a timer for a device cancels the one already pending for it.
C23_OneReconnectTimerPerDevice ==
    \A d \in WifiIds : Cardinality(TimersOf(d)) <= 1

\* C24: after disconnectDevice(id) or cleanup, and until the caller asks for
\* a fresh connect, no connection is registered for id: the later success of
\* an attempt that was in flight is discarded.
C24_LateSuccessDiscarded ==
    \A d \in WifiIds :
        (manuallyOff[d] \/ cleanedUp) => connections[d] = NoSocket

C26_RecordHasAField ==
    rxOutcome.decoded => PopulatedFields(rxOutcome.record) # {}

\* C27: a device's transport handle is never released while a send to that
\* device is in flight: the step that disconnects the GATT server or closes
\* the port finds no write awaiting the device.
C27_NoReleaseWhileSending ==
    [][/\ \A d \in BluetoothIds :
            (d \in gattConnected /\ d \notin gattConnected') => btWrites[d] = 0
       /\ \A d \in SerialIds :
            (d \in openPorts /\ d \notin openPorts') => serialWrites[d] = 0]_vars

\* The serial half of C27, which holds: the port is closed only after
\* writer.close() resolved, and that waits for the writes made before it.
SerialReleaseWaitsForWrites ==
    [][\A d \in SerialIds :
         (d \in openPorts /\ d \notin openPorts') => serialWrites[d] = 0]_vars

\* C29: when SerialService.disconnectDevice(id) has returned, true or false,
\* id has no reader, writer or port entry left.
C29_DisconnectLeavesNoHandle ==
    \A d \in SerialIds :
        (returned.transport = "serial" /\ returned.op = "disconnect")
            => d \notin readers \cup writers \cup connectedPorts

\* C28: after cleanup() has completed, and until the caller asks for a
\* connect, no reconnect timer is pending: none survives cleanup and the
\* close events of the sockets it closed arm none.
C28_NoTimerAfterCleanup ==
    cleanedUp => timers = {}

\* The field a record of a recognized type is decoded into.
FieldOfType(type) ==
    CASE type = 1 -> "heartRate"
      [] type = 2 -> "airQuality"
      [] type = 3 -> "inhalerUsage"
      [] type = 4 -> "inhalerBattery"

\* The values a record's own payload bytes can give its field.
OwnValues(record) ==
    CASE Len(record.payload) = 0 -> {}
      [] Len(record.payload) = 1 -> {Num(record.payload[1])}
      [] OTHER -> {Num(record.payload[1] + 256 * record.payload[2])}

\* C30: the decoder derives a field's value only from the bytes inside the
\* record's declared value range: when a frame starts with a record of a
\* recognized type whose length is shorter than the field's width, and no
\* later record has that type, the field is absent or holds a value of the
\* record's own bytes, never one built from bytes of the following record.
\* (The decode loop ends for every frame: it returns or throws.)
C30_FieldFromOwnBytes ==
    (/\ codecIn.kind = "shortTlv"
     /\ ~codecOut.thrown
     /\ \A i \in 2..Len(codecIn.records) :
           codecIn.records[i].type # codecIn.records[1].type)
       => codecOut.value[FieldOfType(codecIn.records[1].type)]
             \in {Undefined} \cup OwnValues(codecIn.records[1])

====
